---- MODULE Spec2Model ----
(***************************************************************************)
(* tablr: a mutable Markdown table (src/table.go, first revision, lines    *)
(* 1-575).  The table is a record of four slices (columns, rows,           *)
(* alignments, columnMinWidths) guarded by a sync.RWMutex.                 *)
(*                                                                         *)
(* Strings are sequences of one-character strings, so that len() and       *)
(* escapePipes are computed as the code computes them.  Go indexes are     *)
(* 0-based; the operations below take the Go index and address the TLA+    *)
(* sequence at index+1.  A run-time panic (index or slice bound out of     *)
(* range) ends the calling program: the model records it in ret.err and    *)
(* takes no further step.                                                  *)
(***************************************************************************)
EXTENDS Integers, Sequences, FiniteSets, TLC

VARIABLES columns, rows, alignments, columnMinWidths, headerAlignments,
          writer, pretty, ret, calls, mu, pc, tmp

table == <<columns, rows, alignments, columnMinWidths>>
conc == <<mu, pc, tmp>>
(* t.writer and, in the revision that has it, t.pretty *)
sink == <<writer, pretty>>
vars == <<columns, rows, alignments, columnMinWidths, headerAlignments,
          writer, pretty, ret, calls, mu, pc, tmp>>

----------------------------------------------------------------------------
(* Bounds of the model *)

MaxCols == 3
MaxRows == 2
(* calls made on one table after New *)
MaxCalls == 3
(* goroutines calling into one table *)
NProcs == 3

----------------------------------------------------------------------------
(* Alignment constants, src/table.go:13-23 *)

AlignDefault == 0
AlignLeft == 1
AlignCenter == 2
AlignRight == 3
(* a value of type Alignment (uint8) that is none of the four constants *)
AlignBogus == 10

----------------------------------------------------------------------------
(* Generic helpers *)

Max(a, b) == IF a >= b THEN a ELSE b

Range(s) == {s[i] : i \in 1..Len(s)}


RemoveAt(s, i) == [j \in 1..(Len(s) - 1) |-> IF j < i THEN s[j] ELSE s[j + 1]]

(* strings.ReplaceAll(s, "|", "\\|") *)
RECURSIVE escapePipes(_)
escapePipes(s) ==
    IF s = <<>> THEN <<>>
    ELSE IF Head(s) = "|" THEN <<"\\", "|">> \o escapePipes(Tail(s))
    ELSE <<Head(s)>> \o escapePipes(Tail(s))

escapeRow(row) == [i \in 1..Len(row) |-> escapePipes(row[i])]


----------------------------------------------------------------------------
(* The table as a value: the four slices of struct Table *)

Tbl(c, r, a, w) == [columns |-> c, rows |-> r, alignments |-> a, columnMinWidths |-> w]

T == Tbl(columns, rows, alignments, columnMinWidths)

(* the outcome of one call: the table it leaves and what it returns *)
Out(t, e) == [t |-> t, err |-> e]

(* updateAlignments: the loop bound len(columns)-len(alignments) is        *)
(* evaluated again on every iteration, while the loop itself grows         *)
(* alignments.                                                             *)
RECURSIVE updateAlignmentsLoop(_, _, _)
updateAlignmentsLoop(al, n, i) ==
    IF i < n - Len(al)
    THEN updateAlignmentsLoop(Append(al, AlignDefault), n, i + 1)
    ELSE al

updateAlignments(cols, al) ==
    IF Len(cols) = Len(al) THEN al
    ELSE IF Len(al) > Len(cols) THEN SubSeq(al, 1, Len(cols))
    ELSE updateAlignmentsLoop(al, Len(cols), 0)

(* columnMinWidth: the guarded read used by calculateColumnWidths *)
columnMinWidth(w, index) ==
    IF index < 0 \/ index >= Len(w) THEN 0 ELSE w[index + 1]

(* calculateColumnWidths writes t.columnMinWidths[col] for every cell      *)
(* longer than the guarded read: a cell of positive length in a position   *)
(* beyond the widths slice is an index out of range.                       *)
calculateColumnWidthsPanics(t) ==
    \E r \in 1..Len(t.rows) :
        \E c \in 1..Len(t.rows[r]) :
            /\ c > Len(t.columnMinWidths)
            /\ Len(t.rows[r][c]) > columnMinWidth(t.columnMinWidths, c - 1)

RECURSIVE widthOver(_, _, _, _)
widthOver(rs, c, k, acc) ==
    IF k > Len(rs) THEN acc
    ELSE widthOver(rs, c, k + 1,
                   IF c <= Len(rs[k]) /\ Len(rs[k][c]) > acc
                   THEN Len(rs[k][c]) ELSE acc)

(* no stored width is raised *)
calculateColumnWidthsKept(t) == t.columnMinWidths

calculateColumnWidths(t) ==
    [i \in 1..Len(t.columnMinWidths) |->
        widthOver(t.rows, i, 1, t.columnMinWidths[i])]


----------------------------------------------------------------------------
(* Row operations, src/table.go:96-211.  Each operator is the body of the  *)
(* method between Lock and Unlock: the table it leaves and the error.      *)

addRow(t, row) ==
    IF Len(row) # Len(t.columns)
    THEN Out(t, "error")
    ELSE Out([t EXCEPT !.rows = Append(@, escapeRow(row))], "nil")

RECURSIVE AddRowsCall(_, _)
AddRowsCall(t, rs) ==
    IF rs = <<>> THEN Out(t, "nil")
    ELSE LET o == addRow(t, Head(rs))
         IN  IF o.err # "nil" THEN o ELSE AddRowsCall(o.t, Tail(rs))

(* the index check lets len(t.rows) through *)
GetRowCallOffByOne(t, index) ==
    IF index < 0 \/ index > Len(t.rows) THEN Out(t, "error") ELSE Out(t, "nil")

GetRowCall(t, index) ==
    IF index < 0 \/ index >= Len(t.rows) THEN Out(t, "error") ELSE Out(t, "nil")

(* what GetRow returns next to the error: nil, or t.rows[index] *)
GetRowValue(t, index) ==
    IF index < 0 \/ index >= Len(t.rows) THEN <<>> ELSE t.rows[index + 1]

SetRowsCall(t, rs) ==
    Out([t EXCEPT !.rows = [k \in 1..Len(rs) |-> escapeRow(rs[k])]], "nil")

(* the row is stored as given *)
SetRowCallRaw(t, index, row) ==
    IF index < 0 \/ index >= Len(t.rows) THEN Out(t, "error")
    ELSE IF Len(row) # Len(t.columns) THEN Out(t, "error")
    ELSE Out([t EXCEPT !.rows[index + 1] = row], "nil")

SetRowCall(t, index, row) ==
    IF index < 0 \/ index >= Len(t.rows) THEN Out(t, "error")
    ELSE IF Len(row) # Len(t.columns) THEN Out(t, "error")
    ELSE Out([t EXCEPT !.rows[index + 1] = escapeRow(row)], "nil")

(* the last row goes, whatever the index *)
DeleteRowCallLast(t, index) ==
    IF index < 0 \/ index >= Len(t.rows) THEN Out(t, "error")
    ELSE Out([t EXCEPT !.rows = SubSeq(@, 1, Len(@) - 1)], "nil")

(* every row after index moves down one position, the rest is cut *)
DeleteRowCall(t, index) ==
    IF index < 0 \/ index >= Len(t.rows) THEN Out(t, "error")
    ELSE Out([t EXCEPT !.rows = RemoveAt(@, index + 1)], "nil")

(* the columns and their metadata go with the rows *)
ResetCallAll(t) == Out(Tbl(<<>>, <<>>, <<>>, <<>>), "nil")

ResetCall(t) == Out([t EXCEPT !.rows = <<>>], "nil")

----------------------------------------------------------------------------
(* Column operations, src/table.go:213-309 *)

addColumn(t, column) ==
    LET c == escapePipes(column)
    IN  Out([t EXCEPT !.columns = Append(@, c),
                      !.columnMinWidths = Append(@, Len(c)),
                      !.alignments = Append(@, AlignDefault)], "nil")

RECURSIVE AddColumnsCall(_, _)
AddColumnsCall(t, cs) ==
    IF cs = <<>> THEN Out(t, "nil")
    ELSE LET o == addColumn(t, Head(cs))
         IN  IF o.err # "nil" THEN o ELSE AddColumnsCall(o.t, Tail(cs))

(* copy(s[index:], s[index+1:]) and s[:len(s)-1] need index+1 <= len(s):   *)
(* the index is validated against columns only.                            *)
DeleteColumnCall(t, index) ==
    IF index < 0 \/ index >= Len(t.columns) THEN Out(t, "error")
    ELSE LET t1 == [t EXCEPT !.columns = RemoveAt(@, index + 1)]
         IN  IF index >= Len(t.columnMinWidths) THEN Out(t1, "panic")
             ELSE LET t2 == [t1 EXCEPT !.columnMinWidths = RemoveAt(@, index + 1)]
                  IN  IF index >= Len(t.alignments) THEN Out(t2, "panic")
                      ELSE Out([t2 EXCEPT !.alignments = RemoveAt(@, index + 1)], "nil")

GetColumnCall(t, index) ==
    IF index < 0 \/ index >= Len(t.columns) THEN Out(t, "error") ELSE Out(t, "nil")

SetColumnsCall(t, cs) ==
    Out([t EXCEPT !.columns = cs,
                  !.alignments = updateAlignments(cs, t.alignments)], "nil")

SetColumnCall(t, index, column) ==
    IF index < 0 \/ index >= Len(t.columns) THEN Out(t, "error")
    ELSE Out([t EXCEPT !.columns[index + 1] = column], "nil")


----------------------------------------------------------------------------
(* Width operations, src/table.go:311-371 *)

GetColumnWidthCall(t, index) ==
    IF index < 0 \/ index >= Len(t.columnMinWidths) THEN Out(t, "error")
    ELSE IF calculateColumnWidthsPanics(t) THEN Out(t, "panic")
    ELSE Out([t EXCEPT !.columnMinWidths = calculateColumnWidths(t)], "nil")

GetColumnWidthsCall(t) ==
    IF calculateColumnWidthsPanics(t) THEN Out(t, "panic")
    ELSE Out([t EXCEPT !.columnMinWidths = calculateColumnWidths(t)], "nil")

(* what GetColumnWidths returns: the slice t.columnMinWidths after the pass *)
GetColumnWidthsValue(t) ==
    IF GetColumnWidthsCall(t).err = "nil"
    THEN GetColumnWidthsCall(t).t.columnMinWidths ELSE <<>>

SetColumnMinWidthCall(t, index, width) ==
    IF index < 0 \/ index >= Len(t.columns) THEN Out(t, "error")
    ELSE IF index >= Len(t.columnMinWidths) THEN Out(t, "panic")
    ELSE Out([t EXCEPT !.columnMinWidths[index + 1] = Max(width, 0)], "nil")

SetColumnMinWidthsCall(t, widths) ==
    IF Len(widths) # Len(t.columns) THEN Out(t, "error")
    ELSE LET n == IF Len(widths) <= Len(t.columnMinWidths)
                  THEN Len(widths) ELSE Len(t.columnMinWidths)
             w == [i \in 1..Len(t.columnMinWidths) |->
                      IF i <= n THEN Max(widths[i], 0) ELSE t.columnMinWidths[i]]
         IN  Out([t EXCEPT !.columnMinWidths = w],
                 IF Len(widths) > Len(t.columnMinWidths) THEN "panic" ELSE "nil")

----------------------------------------------------------------------------
(* ReorderColumns, src/table.go:373-417 *)

(* the validation loop without its seen map *)
ValidOrderNoSeen(newOrder, n) ==
    /\ Len(newOrder) = n
    /\ \A i \in 1..Len(newOrder) : newOrder[i] >= 0 /\ newOrder[i] < n

(* the validation loop: false as soon as an entry is out of range or seen *)
ValidOrder(newOrder, n) ==
    /\ Len(newOrder) = n
    /\ \A i \in 1..Len(newOrder) : newOrder[i] >= 0 /\ newOrder[i] < n
    /\ \A i, j \in 1..Len(newOrder) : i # j => newOrder[i] # newOrder[j]

(* the selection applied the wrong way round: new[newIndex] = old[i] *)
ReorderedInverse(old, newOrder, zero) ==
    [i \in 1..Len(old) |->
        IF i <= Len(newOrder)
        THEN old[CHOOSE j \in 1..Len(newOrder) : newOrder[j] = i - 1]
        ELSE zero]

(* make([]X, len(old)) filled for i, newIndex := range newOrder *)
Reordered(old, newOrder, zero) ==
    [i \in 1..Len(old) |->
        IF i <= Len(newOrder) THEN old[newOrder[i] + 1] ELSE zero]

(* new[i] = old[newIndex] is out of range when old is shorter than the order *)
ReorderPanics(old, newOrder) == Len(newOrder) > 0 /\ Len(old) < Len(newOrder)

ReorderColumnsCall(t, newOrder) ==
    IF ~ValidOrder(newOrder, Len(t.columns)) THEN Out(t, "error")
    ELSE IF ReorderPanics(t.alignments, newOrder)
              \/ ReorderPanics(t.columnMinWidths, newOrder)
         THEN Out(t, "panic")
    ELSE LET t1 == [t EXCEPT
                      !.columns = Reordered(t.columns, newOrder, <<>>),
                      !.alignments = Reordered(t.alignments, newOrder, AlignDefault),
                      !.columnMinWidths = Reordered(t.columnMinWidths, newOrder, 0)]
             bad == {k \in 1..Len(t.rows) : ReorderPanics(t.rows[k], newOrder)}
             stop == IF bad = {} THEN Len(t.rows) + 1
                     ELSE CHOOSE k \in bad : \A m \in bad : k <= m
         IN  Out([t1 EXCEPT !.rows = [k \in 1..Len(t.rows) |->
                                         IF k < stop
                                         THEN Reordered(t.rows[k], newOrder, <<>>)
                                         ELSE t.rows[k]]],
                 IF bad = {} THEN "nil" ELSE "panic")

----------------------------------------------------------------------------
(* Alignment operations, src/table.go:419-462 *)

GetAlignmentCall(t, index) ==
    IF index < 0 \/ index >= Len(t.alignments) THEN Out(t, "error") ELSE Out(t, "nil")

SetAlignmentCall(t, index, alignment) ==
    IF index < 0 \/ index >= Len(t.alignments) THEN Out(t, "error")
    ELSE Out([t EXCEPT !.alignments[index + 1] = alignment], "nil")

SetAlignmentsCall(t, al) ==
    Out([t EXCEPT !.alignments = updateAlignments(t.columns, al)], "nil")

----------------------------------------------------------------------------
(* Render, src/table.go:464-501.  Only the accesses are modelled here:     *)
(* which indexes Render reads, and the widths calculateColumnWidths        *)
(* leaves behind.                                                          *)

IsValid(a) == a \in {AlignDefault, AlignLeft, AlignCenter, AlignRight}

(* header loop: t.columnMinWidths[i], t.alignments[i] for every column *)
RenderHeaderPanics(t) ==
    Len(t.columns) > Len(t.columnMinWidths) \/ Len(t.columns) > Len(t.alignments)

(* alignment row: t.columnMinWidths[i] for every alignment with a case in  *)
(* the switch; strings.Repeat panics on a negative count                   *)
RenderDelimiterPanics(t) ==
    \E i \in 1..Len(t.alignments) :
        /\ IsValid(t.alignments[i])
        /\ (i > Len(t.columnMinWidths) \/ t.columnMinWidths[i] < 0)

(* data rows: t.columnMinWidths[i], t.alignments[i] for every cell *)
RenderRowsPanics(t) ==
    \E r \in 1..Len(t.rows) :
        Len(t.rows[r]) > Len(t.columnMinWidths) \/ Len(t.rows[r]) > Len(t.alignments)

(* the stored cells are escaped once more on the way out *)
RenderCallEscaping(t) ==
    IF calculateColumnWidthsPanics(t) THEN Out(t, "panic")
    ELSE LET t1 == [t EXCEPT !.columnMinWidths = calculateColumnWidths(t),
                             !.rows = [r \in 1..Len(t.rows) |-> escapeRow(t.rows[r])]]
         IN  IF RenderHeaderPanics(t1) \/ RenderDelimiterPanics(t1) \/ RenderRowsPanics(t1)
             THEN Out(t1, "panic")
             ELSE Out(t1, "nil")

RenderCall(t) ==
    IF calculateColumnWidthsPanics(t) THEN Out(t, "panic")
    ELSE LET t1 == [t EXCEPT !.columnMinWidths = calculateColumnWidths(t)]
         IN  IF RenderHeaderPanics(t1) \/ RenderDelimiterPanics(t1) \/ RenderRowsPanics(t1)
             THEN Out(t1, "panic")
             ELSE Out(t1, "nil")

(* strings.Repeat(ch, n), n >= 0 *)
Repeat(ch, n) == [i \in 1..n |-> ch]

RECURSIVE Concat(_)
Concat(ss) == IF ss = <<>> THEN <<>> ELSE Head(ss) \o Concat(Tail(ss))

(* the odd space of a centred text goes to the left *)
padCenterLeft(s, width, align) ==
    IF Len(s) >= width THEN s
    ELSE LET padding == width - Len(s)
             right == padding \div 2
             left == padding - right
         IN  CASE align \in {AlignLeft, AlignDefault} -> s \o Repeat(" ", padding)
               [] align = AlignCenter -> Repeat(" ", left) \o s \o Repeat(" ", right)
               [] align = AlignRight -> Repeat(" ", padding) \o s
               [] OTHER -> s

(* pad, src/table.go:551-569 *)
pad(s, width, align) ==
    IF Len(s) >= width THEN s
    ELSE LET padding == width - Len(s)
             left == padding \div 2
             right == padding - left
         IN  CASE align \in {AlignLeft, AlignDefault} -> s \o Repeat(" ", padding)
               [] align = AlignCenter -> Repeat(" ", left) \o s \o Repeat(" ", right)
               [] align = AlignRight -> Repeat(" ", padding) \o s
               [] OTHER -> s

(* "| ", the padded text, " " *)
cellText(t, s, i) ==
    <<"|", " ">> \o pad(s, t.columnMinWidths[i], t.alignments[i]) \o <<" ">>

(* the header line: one cell per column, then "|" and a newline *)
headerLine(t) ==
    Concat([i \in 1..Len(t.columns) |-> cellText(t, t.columns[i], i)]) \o <<"|", "\n">>

(* "|" and, for an alignment with a case in the switch, the dashes and colons *)
delimiterCell(align, width) ==
    <<"|">> \o
    CASE align = AlignDefault -> <<"-">> \o Repeat("-", width) \o <<"-">>
      [] align = AlignLeft -> <<":">> \o Repeat("-", width) \o <<"-">>
      [] align = AlignCenter -> <<":">> \o Repeat("-", width) \o <<":">>
      [] align = AlignRight -> <<"-">> \o Repeat("-", width) \o <<":">>
      [] OTHER -> <<>>

(* the alignment row: one cell per entry of t.alignments *)
delimiterLine(t) ==
    Concat([i \in 1..Len(t.alignments) |->
               delimiterCell(t.alignments[i],
                             IF IsValid(t.alignments[i]) THEN t.columnMinWidths[i] ELSE 0)])
    \o <<"|", "\n">>

(* a data line: one cell per cell of the row *)
rowLine(t, row) ==
    Concat([i \in 1..Len(row) |-> cellText(t, row[i], i)]) \o <<"|", "\n">>

(* everything a Render that returns writes to t.writer, in order; t holds   *)
(* the widths calculateColumnWidths left                                    *)
RenderText(t) ==
    headerLine(t) \o delimiterLine(t)
    \o Concat([r \in 1..Len(t.rows) |-> rowLine(t, t.rows[r])])

(* the text of the call; the part a panicking Render wrote before it        *)
(* stopped is left out                                                     *)
RenderValue(t) ==
    IF RenderCall(t).err = "nil" THEN RenderText(RenderCall(t).t) ELSE <<>>


----------------------------------------------------------------------------
(* Construction, src/table.go:35-94 *)

Opt(k, i, v, l) == [k |-> k, i |-> i, v |-> v, l |-> l]

WithAlignments(l) == Opt("WithAlignments", 0, 0, l)
WithAlignment(i, a) == Opt("WithAlignment", i, a, <<>>)
WithMinColumWidths(l) == Opt("WithMinColumWidths", 0, 0, l)
WithMinColumnWidth(i, w) == Opt("WithMinColumnWidth", i, w, <<>>)

(* one option applied to the nascent table *)
ApplyOption(t, o) ==
    CASE o.k = "WithAlignments" -> Out([t EXCEPT !.alignments = o.l], "nil")
      [] o.k = "WithAlignment" ->
            IF o.i < 0 \/ o.i >= Len(t.columns) THEN Out(t, "nil")
            ELSE IF o.i >= Len(t.alignments) THEN Out(t, "panic")
            ELSE Out([t EXCEPT !.alignments[o.i + 1] = o.v], "nil")
      [] o.k = "WithMinColumWidths" -> Out([t EXCEPT !.columnMinWidths = o.l], "nil")
      [] o.k = "WithMinColumnWidth" ->
            IF o.i < 0 \/ o.i >= Len(t.columns) THEN Out(t, "nil")
            ELSE IF o.i >= Len(t.columnMinWidths) THEN Out(t, "panic")
            ELSE Out([t EXCEPT !.columnMinWidths[o.i + 1] = o.v], "nil")

RECURSIVE ApplyOptions(_, _)
ApplyOptions(t, opts) ==
    IF opts = <<>> THEN Out(t, "nil")
    ELSE LET o == ApplyOption(t, Head(opts))
         IN  IF o.err # "nil" THEN o ELSE ApplyOptions(o.t, Tail(opts))

(* the width is the length of the header as given, the stored header is    *)
(* the escaped one                                                         *)
New(cols, opts) ==
    LET t0 == Tbl([i \in 1..Len(cols) |-> escapePipes(cols[i])],
                  <<>>,
                  [i \in 1..Len(cols) |-> AlignDefault],
                  [i \in 1..Len(cols) |-> Len(cols[i])])
        o == ApplyOptions(t0, opts)
    IN  IF o.err # "nil" THEN o
        ELSE Out([o.t EXCEPT !.alignments = updateAlignments(o.t.columns, @)], "nil")


----------------------------------------------------------------------------
(* Inputs of the calls, drawn from small sets *)

HeaderCycle == << <<"a">>, <<"|">>, <<"b", "b">> >>
CellCycle == << <<"x">>, <<"|">>, <<>> >>
AlignCycle == <<AlignRight, AlignBogus, AlignDefault, AlignCenter, AlignLeft>>
WidthCycle == <<3, -1, 0>>

Cyc(c, i) == c[((i - 1) % Len(c)) + 1]

(* a list of n items taken from cycle c, starting after position s *)
ListOf(c, n, s) == [i \in 1..n |-> Cyc(c, i + s)]

HeaderIn == {<<"|">>, <<"b", "b">>}
ColumnsIn == {ListOf(HeaderCycle, n, 0) : n \in 0..MaxCols}
RowIn == {ListOf(CellCycle, n, 0) : n \in 0..(MaxCols + 1)}
(* one row of any length; two rows of the same length; a row followed by   *)
(* a shorter one                                                           *)
RowsIn ==
    {<<>>}
    \cup {<<ListOf(CellCycle, n, 0)>> : n \in 0..(MaxCols + 1)}
    \cup {<<ListOf(CellCycle, n, 0), ListOf(CellCycle, n, 1)>> : n \in 2..MaxCols}
    \cup {<<ListOf(CellCycle, n, 0), ListOf(CellCycle, n - 1, 1)>> : n \in 2..MaxCols}
AlignIn == {AlignCenter, AlignBogus}
AlignmentsIn == {ListOf(AlignCycle, n, 0) : n \in 0..(MaxCols + 1)}
WidthIn == {-1, 3}
WidthsIn == {ListOf(WidthCycle, n, 0) : n \in 0..(MaxCols + 1)}
ColIndexIn == (-1)..MaxCols
RowIndexIn == (-1)..MaxRows

PermutationsOf(n) == {o \in [1..n -> 0..(n - 1)] : \A i, j \in 1..n : i # j => o[i] # o[j]}
(* the identity with its last entry replaced by v *)
Spoiled(n, v) == [i \in 1..n |-> IF i = n THEN v ELSE i - 1]
OrderIn ==
    UNION {PermutationsOf(n) : n \in 0..MaxCols}
    \cup {Spoiled(n, v) : n \in 2..MaxCols, v \in {-1, 0}}
    \cup {Spoiled(n, n) : n \in 1..MaxCols}

OptionIn ==
    {WithAlignments(l) : l \in AlignmentsIn}
    \cup {WithAlignment(i, AlignRight) : i \in ColIndexIn}
    \cup {WithAlignment(0, AlignBogus)}
    \cup {WithMinColumWidths(l) : l \in WidthsIn}
    \cup {WithMinColumnWidth(i, w) : i \in ColIndexIn, w \in {-1, 3}}

OptionsIn == {<<>>} \cup {<<o>> : o \in OptionIn}

----------------------------------------------------------------------------
(* One caller: every call runs from Lock to Unlock without interleaving *)

(* what the last call was and what it returned; arg is the order given to  *)
(* ReorderColumns, the row returned by GetRow, the index given to          *)
(* DeleteRow, the widths returned by GetColumnWidths, the text written by  *)
(* Render                                                                  *)
Ret(op, err, arg) == [op |-> op, err |-> err, arg |-> arg]

(* the sync.RWMutex: its writer (0 when none) and its readers *)
Idle == [w |-> 0, r |-> {}]
Procs == 1..NProcs

(* the locals of one goroutine's call *)
Local(op, row, rs) ==
    [op |-> op, row |-> row, rows |-> rs,
     index |-> 0, order |-> <<>>, cols |-> <<>>, err |-> "nil"]
NoCall == Local("none", <<>>, <<>>)

Init ==
    \E cols \in ColumnsIn, opts \in OptionsIn :
        LET o == New(cols, opts)
        IN  /\ columns = o.t.columns
            /\ rows = o.t.rows
            /\ alignments = o.t.alignments
            /\ columnMinWidths = o.t.columnMinWidths
            /\ headerAlignments = <<>>
            /\ writer = "w"
            /\ pretty = TRUE
            /\ ret = Ret("New", o.err, <<>>)
            /\ mu = Idle
            /\ pc = [p \in Procs |-> "idle"]
            /\ calls = 0
            /\ tmp = [p \in Procs |-> NoCall]

(* a call that leaves outcome o *)
CallWith(op, arg, o) ==
    /\ ret.err # "panic"
    /\ calls < MaxCalls
    /\ calls' = calls + 1
    /\ Len(o.t.columns) <= MaxCols
    /\ Len(o.t.rows) <= MaxRows
    /\ columns' = o.t.columns
    /\ rows' = o.t.rows
    /\ alignments' = o.t.alignments
    /\ columnMinWidths' = o.t.columnMinWidths
    /\ ret' = Ret(op, o.err, arg)
    /\ UNCHANGED <<headerAlignments, sink, conc>>

Call(op, o) == CallWith(op, <<>>, o)

AddRow(row) ==
    /\ Call("AddRow", addRow(T, row))
AddRows(rs) ==
    /\ Call("AddRows", AddRowsCall(T, rs))
GetRow(i) ==
    /\ CallWith("GetRow", GetRowValue(T, i), GetRowCall(T, i))
GetRows ==
    /\ Call("GetRows", Out(T, "nil"))
SetRows(rs) ==
    /\ Call("SetRows", SetRowsCall(T, rs))
SetRow(i, row) ==
    /\ Call("SetRow", SetRowCall(T, i, row))
DeleteRow(i) ==
    /\ CallWith("DeleteRow", i, DeleteRowCall(T, i))
Reset ==
    /\ Call("Reset", ResetCall(T))
AddColumn(c) ==
    /\ Call("AddColumn", addColumn(T, c))
AddColumns(cs) ==
    /\ Call("AddColumns", AddColumnsCall(T, cs))
DeleteColumn(i) ==
    /\ Call("DeleteColumn", DeleteColumnCall(T, i))
GetColumn(i) ==
    /\ Call("GetColumn", GetColumnCall(T, i))
GetColumns ==
    /\ Call("GetColumns", Out(T, "nil"))
SetColumns(cs) ==
    /\ Call("SetColumns", SetColumnsCall(T, cs))
SetColumn(i, c) ==
    /\ Call("SetColumn", SetColumnCall(T, i, c))
GetColumnWidth(i) ==
    /\ Call("GetColumnWidth", GetColumnWidthCall(T, i))
GetColumnWidths ==
    /\ CallWith("GetColumnWidths", GetColumnWidthsValue(T), GetColumnWidthsCall(T))
SetColumnMinWidth(i, w) ==
    /\ Call("SetColumnMinWidth", SetColumnMinWidthCall(T, i, w))
SetColumnMinWidths(ws) ==
    /\ Call("SetColumnMinWidths", SetColumnMinWidthsCall(T, ws))
ReorderColumns(o) ==
    /\ CallWith("ReorderColumns", o, ReorderColumnsCall(T, o))
GetAlignment(i) ==
    /\ Call("GetAlignment", GetAlignmentCall(T, i))
GetAlignments ==
    /\ Call("GetAlignments", Out(T, "nil"))
SetAlignment(i, a) ==
    /\ Call("SetAlignment", SetAlignmentCall(T, i, a))
SetAlignments(al) ==
    /\ Call("SetAlignments", SetAlignmentsCall(T, al))
Render ==
    /\ CallWith("Render", RenderValue(T), RenderCall(T))

Next ==
    \/ \E row \in RowIn : AddRow(row)
    \/ \E rs \in RowsIn : AddRows(rs)
    \/ \E i \in RowIndexIn : GetRow(i)
    \/ GetRows
    \/ \E rs \in RowsIn : SetRows(rs)
    \/ \E i \in RowIndexIn, row \in RowIn : SetRow(i, row)
    \/ \E i \in RowIndexIn : DeleteRow(i)
    \/ Reset
    \/ \E c \in HeaderIn : AddColumn(c)
    \/ \E cs \in ColumnsIn : AddColumns(cs)
    \/ \E i \in ColIndexIn : DeleteColumn(i)
    \/ \E i \in ColIndexIn : GetColumn(i)
    \/ GetColumns
    \/ \E cs \in ColumnsIn : SetColumns(cs)
    \/ \E i \in ColIndexIn, c \in HeaderIn : SetColumn(i, c)
    \/ \E i \in ColIndexIn : GetColumnWidth(i)
    \/ GetColumnWidths
    \/ \E i \in ColIndexIn, w \in WidthIn : SetColumnMinWidth(i, w)
    \/ \E ws \in WidthsIn : SetColumnMinWidths(ws)
    \/ \E o \in OrderIn : ReorderColumns(o)
    \/ \E i \in ColIndexIn : GetAlignment(i)
    \/ GetAlignments
    \/ \E i \in ColIndexIn, a \in AlignIn : SetAlignment(i, a)
    \/ \E al \in AlignmentsIn : SetAlignments(al)
    \/ Render

Spec == Init /\ [][Next]_vars


----------------------------------------------------------------------------
(* Several goroutines on one table.  A call is a sequence of steps; every  *)
(* step that reads or writes a field of the table is one access.  AddRow   *)
(* (src/table.go:97-117) runs between mu.Lock and mu.Unlock, GetRows       *)
(* (146-151) between mu.RLock and mu.RUnlock, Render (465-501) takes no    *)
(* lock.                                                                   *)

DigitCycle == <<"1", "2", "3", "4", "5">>

(* the row goroutine p submits: every cell names the goroutine and its column *)
RowFor(p, n) == [i \in 1..n |-> <<"|", Cyc(DigitCycle, p), Cyc(DigitCycle, i)>>]

InitConc ==
    \E cols \in ColumnsIn \ {<<>>} :
        LET o == New(cols, <<>>)
        IN  /\ columns = o.t.columns
            /\ rows = o.t.rows
            /\ alignments = o.t.alignments
            /\ columnMinWidths = o.t.columnMinWidths
            /\ headerAlignments = <<>>
            /\ writer = "w"
            /\ pretty = TRUE
            /\ ret = Ret("New", o.err, <<>>)
            /\ calls = 0
            /\ mu = Idle
            /\ pc = [p \in Procs |-> "idle"]
            /\ tmp = [p \in Procs |-> NoCall]

Goto(p, at) == pc' = [pc EXCEPT ![p] = at]

(* go func() { table.AddRow(row) }() *)
GoAddRow(p, n) ==
    /\ pc[p] = "idle"
    /\ tmp' = [tmp EXCEPT ![p] = Local("AddRow", RowFor(p, n), <<>>)]
    /\ Goto(p, "Lock")
    /\ UNCHANGED <<table, headerAlignments, sink, ret, calls, mu>>

GoGetRows(p) ==
    /\ pc[p] = "idle"
    /\ tmp' = [tmp EXCEPT ![p] = Local("GetRows", <<>>, <<>>)]
    /\ Goto(p, "RLock")
    /\ UNCHANGED <<table, headerAlignments, sink, ret, calls, mu>>

GoRender(p) ==
    /\ pc[p] = "idle"
    /\ tmp' = [tmp EXCEPT ![p] = Local("Render", <<>>, <<>>)]
    /\ Goto(p, "calculateColumnWidths")
    /\ UNCHANGED <<table, headerAlignments, sink, ret, calls, mu>>

(* a Lock that does not wait *)
CanLockNoWait(m) == TRUE

(* t.mu.Lock() *)
CanLock(m) == m.w = 0 /\ m.r = {}

(* the first statement of each method after it has taken the lock *)
FirstStep(op) ==
    CASE op = "AddRow" -> "addRow_len"
      [] op = "SetRow" -> "setRow_index"
      [] op = "ReorderColumns" -> "reorder_len"
      [] op = "GetRows" -> "getRows"
      [] op = "GetRow" -> "getRow"
      [] op = "GetColumns" -> "getColumns"

Lock(p) ==
    /\ pc[p] = "Lock"
    /\ CanLock(mu)
    /\ mu' = [w |-> p, r |-> {}]
    /\ Goto(p, FirstStep(tmp[p].op))
    /\ UNCHANGED <<table, headerAlignments, sink, ret, calls, tmp>>

(* if len(row) != len(t.columns) { return err } *)
AddRowLen(p) ==
    /\ pc[p] = "addRow_len"
    /\ IF Len(tmp[p].row) # Len(columns)
       THEN Goto(p, "Unlock")
       ELSE Goto(p, "addRow_escape")
    /\ UNCHANGED <<table, headerAlignments, sink, ret, calls, mu, tmp>>

(* row[i] = escapePipes(val): the caller's slice, not yet the table's *)
AddRowEscape(p) ==
    /\ pc[p] = "addRow_escape"
    /\ tmp' = [tmp EXCEPT ![p].row = escapeRow(@)]
    /\ Goto(p, "addRow_read")
    /\ UNCHANGED <<table, headerAlignments, sink, ret, calls, mu>>

(* t.rows = append(t.rows, row): the slice is read ... *)
AddRowRead(p) ==
    /\ pc[p] = "addRow_read"
    /\ tmp' = [tmp EXCEPT ![p].rows = rows]
    /\ Goto(p, "addRow_write")
    /\ UNCHANGED <<table, headerAlignments, sink, ret, calls, mu>>

(* ... and the grown slice is stored *)
AddRowWrite(p) ==
    /\ pc[p] = "addRow_write"
    /\ rows' = Append(tmp[p].rows, tmp[p].row)
    /\ Goto(p, "Unlock")
    /\ UNCHANGED <<columns, alignments, columnMinWidths, headerAlignments, sink, ret, calls, mu, tmp>>

(* the method returns with the lock still taken *)
UnlockForgotten(p) ==
    /\ pc[p] = "Unlock"
    /\ Goto(p, "done")
    /\ UNCHANGED <<table, headerAlignments, sink, ret, calls, mu, tmp>>

(* defer t.mu.Unlock() *)
Unlock(p) ==
    /\ pc[p] = "Unlock"
    /\ mu' = [mu EXCEPT !.w = 0]
    /\ Goto(p, "done")
    /\ UNCHANGED <<table, headerAlignments, sink, ret, calls, tmp>>

(* t.mu.RLock() *)
RLock(p) ==
    /\ pc[p] = "RLock"
    /\ mu.w = 0
    /\ mu' = [mu EXCEPT !.r = @ \cup {p}]
    /\ Goto(p, FirstStep(tmp[p].op))
    /\ UNCHANGED <<table, headerAlignments, sink, ret, calls, tmp>>

(* return t.rows *)
GetRowsRead(p) ==
    /\ pc[p] = "getRows"
    /\ tmp' = [tmp EXCEPT ![p].rows = rows]
    /\ Goto(p, "RUnlock")
    /\ UNCHANGED <<table, headerAlignments, sink, ret, calls, mu>>

(* defer t.mu.RUnlock() *)
RUnlock(p) ==
    /\ pc[p] = "RUnlock"
    /\ mu' = [mu EXCEPT !.r = @ \ {p}]
    /\ Goto(p, "done")
    /\ UNCHANGED <<table, headerAlignments, sink, ret, calls, tmp>>

(* Render: t.calculateColumnWidths() reads the rows and writes the widths *)
RenderWidths(p) ==
    /\ pc[p] = "calculateColumnWidths"
    /\ IF calculateColumnWidthsPanics(T)
       THEN /\ Goto(p, "panic")
            /\ UNCHANGED columnMinWidths
       ELSE /\ columnMinWidths' = calculateColumnWidths(T)
            /\ Goto(p, "header")
    /\ UNCHANGED <<columns, rows, alignments, headerAlignments, sink, ret, calls, mu, tmp>>

(* Render: the header line, the alignment line, the data rows *)
RenderHeader(p) ==
    /\ pc[p] = "header"
    /\ tmp' = [tmp EXCEPT ![p].cols = columns]
    /\ Goto(p, IF RenderHeaderPanics(T) THEN "panic" ELSE "delimiter")
    /\ UNCHANGED <<table, headerAlignments, sink, ret, calls, mu>>

RenderDelimiter(p) ==
    /\ pc[p] = "delimiter"
    /\ Goto(p, IF RenderDelimiterPanics(T) THEN "panic" ELSE "rows")
    /\ UNCHANGED <<table, headerAlignments, sink, ret, calls, mu, tmp>>

RenderRows(p) ==
    /\ pc[p] = "rows"
    /\ tmp' = [tmp EXCEPT ![p].rows = rows]
    /\ Goto(p, IF RenderRowsPanics(T) THEN "panic" ELSE "done")
    /\ UNCHANGED <<table, headerAlignments, sink, ret, calls, mu>>

NextConc ==
    \E p \in Procs :
        \/ \E n \in {Len(columns), Len(columns) + 1} : GoAddRow(p, n)
        \/ GoGetRows(p)
        \/ GoRender(p)
        \/ Lock(p)
        \/ AddRowLen(p)
        \/ AddRowEscape(p)
        \/ AddRowRead(p)
        \/ AddRowWrite(p)
        \/ Unlock(p)
        \/ RLock(p)
        \/ GetRowsRead(p)
        \/ RUnlock(p)
        \/ RenderWidths(p)
        \/ RenderHeader(p)
        \/ RenderDelimiter(p)
        \/ RenderRows(p)

SpecConc == InitConc /\ [][NextConc]_vars

(* the steps of goroutine p once its call is made; the Go scheduler runs    *)
(* every goroutine that can run, and sync.RWMutex hands the lock to a      *)
(* waiting goroutine once it is free                                       *)
StepConc(p) ==
    \/ Lock(p)
    \/ AddRowLen(p)
    \/ AddRowEscape(p)
    \/ AddRowRead(p)
    \/ AddRowWrite(p)
    \/ Unlock(p)
    \/ RLock(p)
    \/ GetRowsRead(p)
    \/ RUnlock(p)
    \/ RenderWidths(p)
    \/ RenderHeader(p)
    \/ RenderDelimiter(p)
    \/ RenderRows(p)

SpecConcFair == InitConc /\ [][NextConc]_vars /\ \A p \in Procs : WF_vars(StepConc(p))


----------------------------------------------------------------------------
(* Readers and writers on a table that holds rows: SetRow (169-188) and    *)
(* ReorderColumns (374-417) run between mu.Lock and mu.Unlock, GetRow      *)
(* (134-143), GetRows (146-151) and GetColumns (279-284) between mu.RLock  *)
(* and mu.RUnlock, Render (465-501) takes no lock.                         *)

(* a second row that tells its cells apart from the headers *)
MarkRow(cols) == [i \in 1..Len(cols) |-> cols[i] \o <<"x">>]

(* row 0 repeats the headers, row 1 the marked headers: cell i of a row    *)
(* names the column it belongs to                                          *)
RowsOf(cols) == <<cols, MarkRow(cols)>>

InitRW ==
    \E n \in 2..MaxCols :
        LET cols == ListOf(HeaderCycle, n, 0)
            o == SetRowsCall(New(cols, <<>>).t, RowsOf(cols))
        IN  /\ columns = o.t.columns
            /\ rows = o.t.rows
            /\ alignments = o.t.alignments
            /\ columnMinWidths = o.t.columnMinWidths
            /\ headerAlignments = <<>>
            /\ writer = "w"
            /\ pretty = TRUE
            /\ ret = Ret("SetRows", o.err, <<>>)
            /\ calls = 0
            /\ mu = Idle
            /\ pc = [p \in Procs |-> "idle"]
            /\ tmp = [p \in Procs |-> NoCall]

(* a rotation of the n columns, and an order that names column 0 twice *)
Rotation(n) == [i \in 1..n |-> (i + n - 2) % n]
OrderRW(n) == {Rotation(n), Spoiled(n, 0), Spoiled(n + 1, n)}

(* go func() { _ = table.SetRow(i, row) }() *)
GoSetRow(p, i) ==
    /\ pc[p] = "idle"
    /\ tmp' = [tmp EXCEPT ![p] =
                  [Local("SetRow", RowFor(p, Len(columns)), <<>>) EXCEPT !.index = i]]
    /\ Goto(p, "Lock")
    /\ UNCHANGED <<table, headerAlignments, sink, ret, calls, mu>>

(* go func() { _, _ = table.GetRow(i) }() *)
GoGetRow(p, i) ==
    /\ pc[p] = "idle"
    /\ tmp' = [tmp EXCEPT ![p] = [Local("GetRow", <<>>, <<>>) EXCEPT !.index = i]]
    /\ Goto(p, "RLock")
    /\ UNCHANGED <<table, headerAlignments, sink, ret, calls, mu>>

GoGetColumns(p) ==
    /\ pc[p] = "idle"
    /\ tmp' = [tmp EXCEPT ![p] = Local("GetColumns", <<>>, <<>>)]
    /\ Goto(p, "RLock")
    /\ UNCHANGED <<table, headerAlignments, sink, ret, calls, mu>>

GoReorderColumns(p, o) ==
    /\ pc[p] = "idle"
    /\ tmp' = [tmp EXCEPT ![p] = [Local("ReorderColumns", <<>>, <<>>) EXCEPT !.order = o]]
    /\ Goto(p, "Lock")
    /\ UNCHANGED <<table, headerAlignments, sink, ret, calls, mu>>

(* return err: the deferred Unlock runs next *)
Fail(p, unlock) ==
    /\ tmp' = [tmp EXCEPT ![p].err = "error"]
    /\ Goto(p, unlock)

(* SetRow: if index < 0 || index >= len(t.rows) { return err } *)
SetRowIndex(p) ==
    /\ pc[p] = "setRow_index"
    /\ IF tmp[p].index < 0 \/ tmp[p].index >= Len(rows)
       THEN Fail(p, "Unlock")
       ELSE Goto(p, "setRow_len") /\ UNCHANGED tmp
    /\ UNCHANGED <<table, headerAlignments, sink, ret, calls, mu>>

(* SetRow: if len(row) != len(t.columns) { return err } *)
SetRowLen(p) ==
    /\ pc[p] = "setRow_len"
    /\ IF Len(tmp[p].row) # Len(columns)
       THEN Fail(p, "Unlock")
       ELSE Goto(p, "setRow_escape") /\ UNCHANGED tmp
    /\ UNCHANGED <<table, headerAlignments, sink, ret, calls, mu>>

(* SetRow: row[i] = escapePipes(val), in the caller's slice *)
SetRowEscape(p) ==
    /\ pc[p] = "setRow_escape"
    /\ tmp' = [tmp EXCEPT ![p].row = escapeRow(@)]
    /\ Goto(p, "setRow_write")
    /\ UNCHANGED <<table, headerAlignments, sink, ret, calls, mu>>

(* the store into slot index of the first row instead *)
SetAtFirst(rs, index, row) == [rs EXCEPT ![1] = row]

(* t.rows[index] = row *)
SetAt(rs, index, row) == [rs EXCEPT ![index + 1] = row]

SetRowWrite(p) ==
    /\ pc[p] = "setRow_write"
    /\ rows' = SetAt(rows, tmp[p].index, tmp[p].row)
    /\ Goto(p, "Unlock")
    /\ UNCHANGED <<columns, alignments, columnMinWidths, headerAlignments, sink, ret, calls, mu, tmp>>

(* GetRow: the index check, then return t.rows[index], nil *)
GetRowRead(p) ==
    /\ pc[p] = "getRow"
    /\ IF tmp[p].index < 0 \/ tmp[p].index >= Len(rows)
       THEN Fail(p, "RUnlock")
       ELSE /\ tmp' = [tmp EXCEPT ![p].row = rows[tmp[p].index + 1]]
            /\ Goto(p, "RUnlock")
    /\ UNCHANGED <<table, headerAlignments, sink, ret, calls, mu>>

(* GetColumns: return t.columns *)
GetColumnsRead(p) ==
    /\ pc[p] = "getColumns"
    /\ tmp' = [tmp EXCEPT ![p].cols = columns]
    /\ Goto(p, "RUnlock")
    /\ UNCHANGED <<table, headerAlignments, sink, ret, calls, mu>>

(* ReorderColumns: if len(newOrder) != len(t.columns) { return err } *)
ReorderLen(p) ==
    /\ pc[p] = "reorder_len"
    /\ IF Len(tmp[p].order) # Len(columns)
       THEN Fail(p, "Unlock")
       ELSE Goto(p, "reorder_validate") /\ UNCHANGED tmp
    /\ UNCHANGED <<table, headerAlignments, sink, ret, calls, mu>>

(* ReorderColumns: the validation loop *)
ReorderValidate(p) ==
    /\ pc[p] = "reorder_validate"
    /\ IF ~ValidOrder(tmp[p].order, Len(columns))
       THEN Fail(p, "Unlock")
       ELSE Goto(p, "reorder_columns") /\ UNCHANGED tmp
    /\ UNCHANGED <<table, headerAlignments, sink, ret, calls, mu>>

(* ReorderColumns: the new header, alignment and width lists are built and *)
(* assigned                                                                *)
ReorderMeta(p) ==
    /\ pc[p] = "reorder_columns"
    /\ IF ReorderPanics(alignments, tmp[p].order)
          \/ ReorderPanics(columnMinWidths, tmp[p].order)
       THEN /\ Goto(p, "panic")
            /\ UNCHANGED <<columns, alignments, columnMinWidths>>
       ELSE /\ columns' = Reordered(columns, tmp[p].order, <<>>)
            /\ alignments' = Reordered(alignments, tmp[p].order, AlignDefault)
            /\ columnMinWidths' = Reordered(columnMinWidths, tmp[p].order, 0)
            /\ Goto(p, "reorder_rows")
    /\ UNCHANGED <<rows, headerAlignments, sink, ret, calls, mu, tmp>>

(* ReorderColumns: for i, row := range t.rows { ...; t.rows[i] = newRow },  *)
(* one row per step, tmp[p].index being i                                  *)
ReorderRow(p) ==
    /\ pc[p] = "reorder_rows"
    /\ LET i == tmp[p].index
       IN  IF i >= Len(rows)
           THEN /\ Goto(p, "Unlock")
                /\ UNCHANGED <<rows, tmp>>
           ELSE IF ReorderPanics(rows[i + 1], tmp[p].order)
           THEN /\ Goto(p, "panic")
                /\ UNCHANGED <<rows, tmp>>
           ELSE /\ rows' = [rows EXCEPT ![i + 1] = Reordered(@, tmp[p].order, <<>>)]
                /\ tmp' = [tmp EXCEPT ![p].index = i + 1]
                /\ UNCHANGED pc
    /\ UNCHANGED <<columns, alignments, columnMinWidths, headerAlignments, sink, ret, calls, mu>>

NextRW ==
    \E p \in Procs :
        \/ \E i \in 0..MaxRows : GoSetRow(p, i)
        \/ \E i \in 0..MaxRows : GoGetRow(p, i)
        \/ GoGetColumns(p)
        \/ GoGetRows(p)
        \/ \E o \in OrderRW(Len(columns)) : GoReorderColumns(p, o)
        \/ GoRender(p)
        \/ Lock(p)
        \/ SetRowIndex(p)
        \/ SetRowLen(p)
        \/ SetRowEscape(p)
        \/ SetRowWrite(p)
        \/ ReorderLen(p)
        \/ ReorderValidate(p)
        \/ ReorderMeta(p)
        \/ ReorderRow(p)
        \/ Unlock(p)
        \/ RLock(p)
        \/ GetRowRead(p)
        \/ GetRowsRead(p)
        \/ GetColumnsRead(p)
        \/ RUnlock(p)
        \/ RenderWidths(p)
        \/ RenderHeader(p)
        \/ RenderDelimiter(p)
        \/ RenderRows(p)

SpecRW == InitRW /\ [][NextRW]_vars


----------------------------------------------------------------------------
(* New step by step (src/table.go:72-94): the table as the struct literal  *)
(* and the header loop leave it, then one option per step, then            *)
(* updateAlignments.  While New runs, ret.arg holds the options not yet    *)
(* applied.                                                                *)

OptionSeqsIn ==
    {<<>>} \cup {<<o>> : o \in OptionIn} \cup {<<o1, o2>> : o1 \in OptionIn, o2 \in OptionIn}

InitNew ==
    \E cols \in ColumnsIn, opts \in OptionSeqsIn :
        LET o == New(cols, <<>>)
        IN  /\ columns = o.t.columns
            /\ rows = o.t.rows
            /\ alignments = o.t.alignments
            /\ columnMinWidths = o.t.columnMinWidths
            /\ headerAlignments = <<>>
            /\ writer = "w"
            /\ pretty = TRUE
            /\ ret = Ret("New:opts", "nil", opts)
            /\ mu = Idle
            /\ pc = [p \in Procs |-> "idle"]
            /\ calls = 0
            /\ tmp = [p \in Procs |-> NoCall]

(* for _, opt := range opts { opt(t) } *)
NewApplyOption ==
    /\ ret.op = "New:opts"
    /\ ret.err = "nil"
    /\ ret.arg # <<>>
    /\ LET o == ApplyOption(T, Head(ret.arg))
       IN  /\ columns' = o.t.columns
           /\ rows' = o.t.rows
           /\ alignments' = o.t.alignments
           /\ columnMinWidths' = o.t.columnMinWidths
           /\ ret' = Ret("New:opts", o.err, Tail(ret.arg))
    /\ UNCHANGED <<headerAlignments, sink, calls, conc>>

(* t.updateAlignments(); return t *)
NewReturn ==
    /\ ret.op = "New:opts"
    /\ ret.err = "nil"
    /\ ret.arg = <<>>
    /\ alignments' = updateAlignments(columns, alignments)
    /\ ret' = Ret("New", "nil", <<>>)
    /\ UNCHANGED <<columns, rows, columnMinWidths, headerAlignments, sink, calls, conc>>

NextNew ==
    \/ NewApplyOption
    \/ NewReturn

SpecNew == InitNew /\ [][NextNew]_vars


----------------------------------------------------------------------------
(* The alignment options of the revision with header alignments            *)
(* (src/option.go:6-63).  Each takes the nascent table's column count n,   *)
(* its data alignments al and its header alignments h, and leaves both     *)
(* lists and whether it panicked.                                          *)

HOut(al, h, e) == [al |-> al, h |-> h, err |-> e]

AllValid(l) == \A k \in 1..Len(l) : IsValid(l[k])

WithHeaderAlignments(l) == Opt("WithHeaderAlignments", 0, 0, l)
WithHeaderAlignment(i, a) == Opt("WithHeaderAlignment", i, a, <<>>)

(* if t.headerAlignments[i] == AlignDefault { t.headerAlignments[i] = a } *)
Cascade(hi, a) == IF hi = AlignDefault THEN a ELSE hi

(* for _, a := range alignments { if !a.IsValid() { return } }; assign *)
ApplyWithHeaderAlignments(n, al, h, l) ==
    IF ~AllValid(l) THEN HOut(al, h, "nil") ELSE HOut(al, l, "nil")

ApplyWithHeaderAlignment(n, al, h, i, a) ==
    IF i < 0 \/ i >= n THEN HOut(al, h, "nil")
    ELSE IF ~IsValid(a) THEN HOut(al, h, "nil")
    ELSE IF i >= Len(h) THEN HOut(al, h, "panic")
    ELSE HOut(al, [h EXCEPT ![i + 1] = a], "nil")

(* the loop of WithAlignments from its k-th element on: it returns at the  *)
(* first invalid value, the header alignments cascaded so far staying      *)
RECURSIVE ApplyWithAlignmentsFrom(_, _, _, _)
ApplyWithAlignmentsFrom(al, h, l, k) ==
    IF k > Len(l) THEN HOut(l, h, "nil")
    ELSE IF ~IsValid(l[k]) THEN HOut(al, h, "nil")
    ELSE IF k > Len(h) THEN HOut(al, h, "panic")
    ELSE ApplyWithAlignmentsFrom(al, [h EXCEPT ![k] = Cascade(@, l[k])], l, k + 1)

ApplyWithAlignments(n, al, h, l) == ApplyWithAlignmentsFrom(al, h, l, 1)

ApplyWithAlignment(n, al, h, i, a) ==
    IF i < 0 \/ i >= n THEN HOut(al, h, "nil")
    ELSE IF ~IsValid(a) THEN HOut(al, h, "nil")
    ELSE IF i >= Len(al) THEN HOut(al, h, "panic")
    ELSE LET al1 == [al EXCEPT ![i + 1] = a]
         IN  IF i >= Len(h) THEN HOut(al1, h, "panic")
             ELSE HOut(al1, [h EXCEPT ![i + 1] = Cascade(@, a)], "nil")

ApplyAlignmentOption(n, al, h, o) ==
    CASE o.k = "WithHeaderAlignments" -> ApplyWithHeaderAlignments(n, al, h, o.l)
      [] o.k = "WithHeaderAlignment" -> ApplyWithHeaderAlignment(n, al, h, o.i, o.v)
      [] o.k = "WithAlignments" -> ApplyWithAlignments(n, al, h, o.l)
      [] o.k = "WithAlignment" -> ApplyWithAlignment(n, al, h, o.i, o.v)

(* alignment lists of every length up to N + 1: with an invalid value from *)
(* the second entry on (shift 0), all valid up to four entries (2 and 3)   *)
AlignListsIn == {ListOf(AlignCycle, n, s) : n \in 0..(MaxCols + 1), s \in {0, 2, 3}}

AlignmentOptionIn ==
    {WithAlignments(l) : l \in AlignListsIn}
    \cup {WithHeaderAlignments(l) : l \in AlignListsIn}
    \cup {WithAlignment(i, a) : i \in ColIndexIn, a \in {AlignLeft, AlignBogus}}
    \cup {WithHeaderAlignment(i, a) : i \in ColIndexIn, a \in {AlignRight, AlignBogus}}

AlignmentOptionSeqsIn ==
    {<<>>} \cup {<<o>> : o \in AlignmentOptionIn}
           \cup {<<o1, o2>> : o1 \in AlignmentOptionIn, o2 \in AlignmentOptionIn}

(* the nascent table: N headers, all data and header alignments Default *)
NewWithHeaderAlignments(cols) ==
    [t |-> New(cols, <<>>).t, h |-> [i \in 1..Len(cols) |-> AlignDefault]]

InitOpt ==
    \E cols \in ColumnsIn, opts \in AlignmentOptionSeqsIn :
        LET o == NewWithHeaderAlignments(cols)
        IN  /\ columns = o.t.columns
            /\ rows = o.t.rows
            /\ alignments = o.t.alignments
            /\ columnMinWidths = o.t.columnMinWidths
            /\ headerAlignments = o.h
            /\ writer = "w"
            /\ pretty = TRUE
            /\ ret = Ret("New:alignment opts", "nil", opts)
            /\ mu = Idle
            /\ pc = [p \in Procs |-> "idle"]
            /\ calls = 0
            /\ tmp = [p \in Procs |-> NoCall]

(* for _, opt := range opts { opt(t) }, one option per step *)
NewApplyAlignmentOption ==
    /\ ret.op = "New:alignment opts"
    /\ ret.err = "nil"
    /\ ret.arg # <<>>
    /\ LET o == ApplyAlignmentOption(Len(columns), alignments, headerAlignments,
                                     Head(ret.arg))
       IN  /\ alignments' = o.al
           /\ headerAlignments' = o.h
           /\ ret' = Ret("New:alignment opts", o.err, Tail(ret.arg))
    /\ UNCHANGED <<columns, rows, columnMinWidths, sink, calls, conc>>

SpecOpt == InitOpt /\ [][NewApplyAlignmentOption]_vars

-----------------------------------------------------------------------------
(* Render and String, one after the other, on a table that New and one     *)
(* SetRows filled; nothing changes the table in between.                   *)

InitRender ==
    \E cols \in ColumnsIn, opts \in OptionsIn, rs \in RowsIn :
        LET o == SetRowsCall(New(cols, opts).t, rs)
        IN  /\ New(cols, opts).err = "nil"
            /\ columns = o.t.columns
            /\ rows = o.t.rows
            /\ alignments = o.t.alignments
            /\ columnMinWidths = o.t.columnMinWidths
            /\ headerAlignments = <<>>
            /\ writer = "w"
            /\ pretty = TRUE
            /\ ret = Ret("SetRows", o.err, <<>>)
            /\ calls = 0
            /\ mu = Idle
            /\ pc = [p \in Procs |-> "idle"]
            /\ tmp = [p \in Procs |-> NoCall]

(* String: t.writer = &sb, then Render; sb.String() is returned.  "sb" is  *)
(* the strings.Builder of the last String call, "w" the writer New got.    *)
String ==
    /\ ret.err # "panic"
    /\ calls < MaxCalls
    /\ calls' = calls + 1
    /\ writer' = "sb"
    /\ columns' = RenderCall(T).t.columns
    /\ rows' = RenderCall(T).t.rows
    /\ alignments' = RenderCall(T).t.alignments
    /\ columnMinWidths' = RenderCall(T).t.columnMinWidths
    /\ ret' = Ret("String", RenderCall(T).err, RenderValue(T))
    /\ UNCHANGED <<headerAlignments, pretty, conc>>

NextRender ==
    \/ Render
    \/ String

SpecRender == InitRender /\ [][NextRender]_vars

-----------------------------------------------------------------------------
(* updateAlignments as a function of the column list and the alignment     *)
(* list, run again and again: New, SetColumns and SetAlignments run it,    *)
(* and in the revision of src/table.go:939-961 every GetAlignment and      *)
(* GetAlignments does.                                                     *)

AlignmentSeqsIn ==
    UNION {[1..n -> {AlignDefault, AlignCenter}] : n \in 0..(MaxCols + 1)}

InitUpdate ==
    \E cols \in ColumnsIn, al \in AlignmentSeqsIn :
        /\ columns = escapeRow(cols)
        /\ rows = <<>>
        /\ alignments = al
        /\ columnMinWidths = [i \in 1..Len(cols) |-> Len(cols[i])]
        /\ headerAlignments = <<>>
        /\ writer = "w"
        /\ pretty = TRUE
        /\ ret = Ret("alignments set", "nil", <<>>)
        /\ calls = 0
        /\ mu = Idle
        /\ pc = [p \in Procs |-> "idle"]
        /\ tmp = [p \in Procs |-> NoCall]

(* t.updateAlignments() *)
UpdateAlignments ==
    /\ calls < MaxCalls
    /\ calls' = calls + 1
    /\ alignments' = updateAlignments(columns, alignments)
    /\ ret' = Ret("updateAlignments", "nil", <<>>)
    /\ UNCHANGED <<columns, rows, columnMinWidths, headerAlignments, sink, conc>>

SpecUpdate == InitUpdate /\ [][UpdateAlignments]_vars

-----------------------------------------------------------------------------
(* The revision with the pretty flag, src/unnamed/part_003.  Its New,      *)
(* addRow and pad are those above; columnMinWidths stands for its          *)
(* t.columnWidths, which New sets to the header lengths.  Render (403-442) *)
(* calculates the widths only when t.pretty is set; t.pretty is false      *)
(* unless the option WithPretty(true) is given (36-42).                    *)

(* the widths are calculated whatever the flag says *)
RenderPart003CallAlways(t, pr) == RenderCall(t)

RenderPart003Call(t, pr) ==
    IF pr THEN RenderCall(t)
    ELSE IF RenderHeaderPanics(t) \/ RenderDelimiterPanics(t) \/ RenderRowsPanics(t)
         THEN Out(t, "panic")
         ELSE Out(t, "nil")

RenderPart003Value(t, pr) ==
    IF RenderPart003Call(t, pr).err = "nil"
    THEN RenderText(RenderPart003Call(t, pr).t) ELSE <<>>

PrettyAlignCycle == <<AlignLeft, AlignCenter, AlignRight>>

InitPretty ==
    \E cols \in ColumnsIn, pr \in BOOLEAN, aligned \in BOOLEAN :
        LET opts == IF aligned
                    THEN <<WithAlignments(ListOf(PrettyAlignCycle, Len(cols), 0))>>
                    ELSE <<>>
            o == New(cols, opts)
        IN  /\ columns = o.t.columns
            /\ rows = o.t.rows
            /\ alignments = o.t.alignments
            /\ columnMinWidths = o.t.columnMinWidths
            /\ headerAlignments = <<>>
            /\ writer = "w"
            /\ pretty = pr
            /\ ret = Ret("New", o.err, <<>>)
            /\ calls = 0
            /\ mu = Idle
            /\ pc = [p \in Procs |-> "idle"]
            /\ tmp = [p \in Procs |-> NoCall]

RenderPart003 ==
    /\ CallWith("Render", RenderPart003Value(T, pretty), RenderPart003Call(T, pretty))

NextPretty ==
    \/ \E row \in RowIn : AddRow(row)
    \/ RenderPart003

SpecPretty == InitPretty /\ [][NextPretty]_vars

-----------------------------------------------------------------------------
(* pad as a function: a text, a width and an alignment go in, the padded   *)
(* text comes out.                                                         *)

MaxLen == 3
MaxWidth == 6
PadCycle == <<"t", "e", "s", "t">>
PadTextIn == {ListOf(PadCycle, n, 0) : n \in 0..MaxLen}
PadWidthIn == (-1)..MaxWidth
PadAlignIn == {AlignDefault, AlignLeft, AlignCenter, AlignRight, AlignBogus}

InitPad ==
    \E s \in PadTextIn, width \in PadWidthIn, align \in PadAlignIn :
        /\ columns = <<>>
        /\ rows = <<>>
        /\ alignments = <<>>
        /\ columnMinWidths = <<>>
        /\ headerAlignments = <<>>
        /\ writer = "w"
        /\ pretty = TRUE
        /\ ret = Ret("pad:args", "nil", [s |-> s, width |-> width, align |-> align])
        /\ mu = Idle
        /\ pc = [p \in Procs |-> "idle"]
        /\ calls = 0
        /\ tmp = [p \in Procs |-> NoCall]

(* the call pad(s, width, align); out is what it returns *)
Pad ==
    /\ ret.op = "pad:args"
    /\ ret' = Ret("pad", "nil",
                  [s |-> ret.arg.s, width |-> ret.arg.width, align |-> ret.arg.align,
                   out |-> pad(ret.arg.s, ret.arg.width, ret.arg.align)])
    /\ UNCHANGED <<table, headerAlignments, sink, calls, conc>>

SpecPad == InitPad /\ [][Pad]_vars

-----------------------------------------------------------------------------
(* Width queries between row operations: a table as New leaves it, without *)
(* options, filled by one SetRows; no call changes a header or sets a      *)
(* minimum width, so the configured widths stay those of New.              *)

InitWidths ==
    \E cols \in ColumnsIn, rs \in RowsIn :
        LET o == SetRowsCall(New(cols, <<>>).t, rs)
        IN  /\ columns = o.t.columns
            /\ rows = o.t.rows
            /\ alignments = o.t.alignments
            /\ columnMinWidths = o.t.columnMinWidths
            /\ headerAlignments = <<>>
            /\ writer = "w"
            /\ pretty = TRUE
            /\ ret = Ret("SetRows", o.err, <<>>)
            /\ calls = 0
            /\ mu = Idle
            /\ pc = [p \in Procs |-> "idle"]
            /\ tmp = [p \in Procs |-> NoCall]

NextWidths ==
    \/ \E row \in RowIn : AddRow(row)
    \/ \E i \in RowIndexIn, row \in RowIn : SetRow(i, row)
    \/ \E i \in RowIndexIn : DeleteRow(i)
    \/ Reset
    \/ \E i \in ColIndexIn : GetColumnWidth(i)
    \/ GetColumnWidths
    \/ Render

SpecWidths == InitWidths /\ [][NextWidths]_vars

----------------------------------------------------------------------------
(* Writing back what was read: the caller takes a row from GetRow, or all   *)
(* rows from GetRows, and hands it to SetRow or SetRows unchanged.          *)

InitWriteBack ==
    \E cols \in ColumnsIn, rs \in RowsIn :
        LET o == SetRowsCall(New(cols, <<>>).t, rs)
        IN  /\ columns = o.t.columns
            /\ rows = o.t.rows
            /\ alignments = o.t.alignments
            /\ columnMinWidths = o.t.columnMinWidths
            /\ headerAlignments = <<>>
            /\ writer = "w"
            /\ pretty = TRUE
            /\ ret = Ret("SetRows", o.err, <<>>)
            /\ calls = 0
            /\ mu = Idle
            /\ pc = [p \in Procs |-> "idle"]
            /\ tmp = [p \in Procs |-> NoCall]

(* r, _ := t.GetRow(i); t.SetRow(i, r) *)
SetRowBack(i) ==
    /\ CallWith("SetRow(GetRow)", i, SetRowCall(GetRowCall(T, i).t, i, GetRowValue(T, i)))

(* t.SetRows(t.GetRows()) *)
SetRowsBack ==
    /\ Call("SetRows(GetRows)", SetRowsCall(T, rows))

NextWriteBack ==
    \/ \E i \in RowIndexIn : SetRowBack(i)
    \/ SetRowsBack

SpecWriteBack == InitWriteBack /\ [][NextWriteBack]_vars


----------------------------------------------------------------------------
(* Properties *)

(* row padded with empty strings, or cut, to n cells *)
Adjusted(row, n) == [i \in 1..n |-> IF i <= Len(row) THEN row[i] ELSE <<>>]

(* C1: in every state reached by New and any sequence of calls, every      *)
(* stored row has exactly as many cells as there are columns.              *)
C1_RowsHaveNCells ==
    ret.err # "panic" => \A r \in 1..Len(rows) : Len(rows[r]) = Len(columns)

(* C2: after New with any options and after any sequence of calls, the     *)
(* alignment list and the minimum-width list have exactly as many entries  *)
(* as the column list.                                                     *)
C2_MetadataHasNEntries ==
    ret.err # "panic" =>
        /\ Len(alignments) = Len(columns)
        /\ Len(columnMinWidths) = Len(columns)

(* C3: whenever a call returns an error, the columns, rows, alignments and *)
(* minimum widths are what they were before the call (AddRows with several *)
(* rows included).                                                         *)
C3_ErrorLeavesTable == [][ret'.err = "error" => table' = table]_vars

(* C4: no call performs an out-of-range access: no call panics.            *)
C4_NoPanic == ret.err # "panic"

(* C5: AddRow with a row of any length returns no error and appends        *)
(* exactly one row, the input escaped and padded or cut to N cells,        *)
(* leaving the earlier rows as they were.                                  *)
C5_AddRowAdjusts ==
    [][\A row \in RowIn :
          AddRow(row) =>
              /\ ret'.err = "nil"
              /\ rows' = Append(rows, Adjusted(escapeRow(row), Len(columns)))]_vars

(* C6: the width of column i returned by a width query and used by Render  *)
(* is at least the length of the stored header i and at least the length   *)
(* of every cell now in column i (it is the minimum-width slot itself,     *)
(* which the width calculation only raises).                               *)
C6_WidthCovers ==
    (ret.op \in {"GetColumnWidth", "GetColumnWidths", "Render"} /\ ret.err = "nil") =>
        \A i \in 1..Len(columns) :
            i <= Len(columnMinWidths) =>
                /\ columnMinWidths[i] >= Len(columns[i])
                /\ \A r \in 1..Len(rows) :
                      i <= Len(rows[r]) => columnMinWidths[i] >= Len(rows[r][i])

(* C7: when ReorderColumns(newOrder) succeeds, the header, alignment and   *)
(* minimum width at every position i are the old ones at newOrder[i], the  *)
(* cell at i of every row is the old cell at newOrder[i], and the number   *)
(* of rows and of columns is unchanged.                                    *)
C7_ReorderSelects ==
    [][(ret'.op = "ReorderColumns" /\ ret'.err = "nil") =>
          LET o == ret'.arg
          IN  /\ Len(columns') = Len(columns)
              /\ Len(rows') = Len(rows)
              /\ \A i \in 1..Len(columns) :
                    /\ columns'[i] = columns[o[i] + 1]
                    /\ alignments'[i] = alignments[o[i] + 1]
                    /\ columnMinWidths'[i] = columnMinWidths[o[i] + 1]
                    /\ \A r \in 1..Len(rows) : rows'[r][i] = rows[r][o[i] + 1]]_vars

(* a 3-cycle applied to three distinct headers and one full row *)
C7_Witness ==
    /\ ret = Ret("ReorderColumns", "nil", <<2, 0, 1>>)
    /\ columns = << <<"b", "b">>, <<"a">>, <<"\\", "|">> >>
    /\ rows = << << <<>>, <<"x">>, <<"\\", "|">> >> >>

(* C8: ReorderColumns returns an error and leaves columns, alignments,     *)
(* widths and rows unchanged when the order has the wrong length, or an    *)
(* entry outside [0, N), or an index twice.                                *)
C8_ReorderRejects ==
    [][(/\ ret'.op = "ReorderColumns"
        /\ ret'.err # "panic"
        /\ LET o == ret'.arg
           IN  \/ Len(o) # Len(columns)
               \/ \E i \in 1..Len(o) : o[i] < 0 \/ o[i] >= Len(columns)
               \/ \E i, j \in 1..Len(o) : i < j /\ o[i] = o[j])
       => (ret'.err = "error" /\ table' = table)]_vars

(* an order of the right length with index 0 twice was refused on a table  *)
(* that holds a row                                                        *)
C8_Witness ==
    /\ ret = Ret("ReorderColumns", "error", <<0, 1, 0>>)
    /\ Len(columns) = 3
    /\ Len(rows) > 0

(* C9: when n AddRow calls with rows of N cells run concurrently, the      *)
(* table ends with exactly n more rows, every submitted row present once   *)
(* and whole.                                                              *)
AllDone == \A p \in Procs : pc[p] = "done"

Adders == {p \in Procs : tmp[p].op = "AddRow" /\ Len(tmp[p].row) = Len(columns)}

C9_ConcurrentAddRow ==
    AllDone =>
        /\ Len(rows) = Cardinality(Adders)
        /\ \A p \in Adders :
              Cardinality({k \in 1..Len(rows) :
                              rows[k] = escapeRow(RowFor(p, Len(columns)))}) = 1

C9_Witness == AllDone /\ Cardinality(Adders) = NProcs /\ Len(rows) = NProcs

(* C10: every call accesses the table only while it holds the lock, and no *)
(* other call reads or writes the table while a mutator is between its     *)
(* first and its last access.                                              *)
AccessSteps ==
    {"addRow_len", "addRow_read", "addRow_write", "getRows",
     "calculateColumnWidths", "header", "delimiter", "rows"}

Accesses(p) == pc[p] \in AccessSteps /\ pc'[p] # pc[p]

HoldsLock(p) == mu.w = p \/ p \in mu.r

InMutation(q) == pc[q] \in {"addRow_escape", "addRow_read", "addRow_write"}

C10_LockedAccess ==
    [][\A p \in Procs :
          Accesses(p) =>
              /\ HoldsLock(p)
              /\ \A q \in Procs \ {p} : ~InMutation(q)]_vars

(* C11: Render holds the lock from before its first read of the table      *)
(* until it has written the last line: while a Render is between its width *)
(* calculation and its last data row, no other call changes the table, so  *)
(* the text of one Render is the text of one table state.                  *)
InRender(p) == pc[p] \in {"header", "delimiter", "rows"}

C11_RenderOneState ==
    [][\A p \in Procs : (InRender(p) /\ pc'[p] = pc[p]) => table' = table]_vars

(* C12: a GetRow(i) that runs concurrently with SetRow calls returns, in   *)
(* every interleaving, either the whole row stored at i before the calls   *)
(* or the whole (escaped) row of some SetRow(i, r); a SetRow on another    *)
(* index never shows in what GetRow(i) returns.  Column reorders are left  *)
(* out of this case.                                                       *)
NoReorder == \A q \in Procs : tmp[q].op # "ReorderColumns"

Returned(p, op) == tmp[p].op = op /\ pc[p] \in {"RUnlock", "done"} /\ tmp[p].err = "nil"

RowsSetAt(i) ==
    {escapeRow(RowFor(q, Len(columns))) :
        q \in {w \in Procs : tmp[w].op = "SetRow" /\ tmp[w].index = i}}

C12_GetRowWhole ==
    NoReorder =>
        \A p \in Procs :
            Returned(p, "GetRow") =>
                tmp[p].row \in {RowsOf(columns)[tmp[p].index + 1]}
                                   \cup RowsSetAt(tmp[p].index)

(* GetRow(0) returned the row of a finished SetRow(0, r) while another     *)
(* goroutine has finished a SetRow on index 1                              *)
C12_Witness ==
    /\ NoReorder
    /\ AllDone
    /\ \E p, q, w \in Procs :
          /\ Returned(p, "GetRow") /\ tmp[p].index = 0
          /\ tmp[q].op = "SetRow" /\ tmp[q].index = 0 /\ tmp[q].err = "nil"
          /\ tmp[w].op = "SetRow" /\ tmp[w].index = 1 /\ tmp[w].err = "nil"
          /\ tmp[p].row = escapeRow(RowFor(q, Len(columns)))
          /\ rows[2] = escapeRow(RowFor(w, Len(columns)))

(* C13: ReorderColumns is atomic for observers: the headers and rows that  *)
(* one Render writes, and the rows that one GetRows returns, are those of  *)
(* a table in which all or none of the columns and rows are reordered      *)
(* (every cell still sits under the header it names).  Row writers are     *)
(* left out of this case.                                                  *)
NoRowWriter == \A q \in Procs : tmp[q].op \notin {"SetRow", "AddRow"}

C13_ReorderAtomic ==
    NoRowWriter =>
        \A p \in Procs :
            /\ (tmp[p].op = "Render" /\ pc[p] = "done")
                  => tmp[p].rows = RowsOf(tmp[p].cols)
            /\ Returned(p, "GetRows")
                  => tmp[p].rows = RowsOf(tmp[p].rows[1])

(* every "|" of s has a backslash right before it *)
PipesEscaped(s) == \A i \in 1..Len(s) : s[i] = "|" => (i > 1 /\ s[i - 1] = "\\")

(* C14: whichever calls stored them, every header and every cell that a    *)
(* Render writes has each pipe character preceded by a backslash.          *)
C14_RenderEscapesPipes ==
    (ret.op = "Render" /\ ret.err = "nil") =>
        /\ \A i \in 1..Len(columns) : PipesEscaped(columns[i])
        /\ \A r \in 1..Len(rows) : \A i \in 1..Len(rows[r]) : PipesEscaped(rows[r][i])

(* the lists and rows all have N entries before the call *)
WellFormed ==
    /\ Len(alignments) = Len(columns)
    /\ Len(columnMinWidths) = Len(columns)
    /\ \A r \in 1..Len(rows) : Len(rows[r]) = Len(columns)

(* C15: AddColumn(header) appends the escaped header as the last column,   *)
(* with a Default alignment and a minimum width equal to the length of the *)
(* header, and every row gains one trailing empty cell; the number of rows *)
(* and all earlier cells stay.                                             *)
C15_AddColumnExtends ==
    [][\A h \in HeaderIn :
          (WellFormed /\ AddColumn(h)) =>
              /\ ret'.err = "nil"
              /\ columns' = Append(columns, escapePipes(h))
              /\ alignments' = Append(alignments, AlignDefault)
              /\ columnMinWidths' = Append(columnMinWidths, Len(escapePipes(h)))
              /\ rows' = [r \in 1..Len(rows) |-> Append(rows[r], <<>>)]]_vars

(* C16: DeleteColumn(i) with 0 <= i < N removes entry i from the headers,  *)
(* the alignments and the minimum widths and cell i from every row, the    *)
(* rest keeping its order.                                                 *)
C16_DeleteColumnRemoves ==
    [][\A i \in ColIndexIn :
          (WellFormed /\ i >= 0 /\ i < Len(columns) /\ DeleteColumn(i)) =>
              /\ ret'.err = "nil"
              /\ columns' = RemoveAt(columns, i + 1)
              /\ alignments' = RemoveAt(alignments, i + 1)
              /\ columnMinWidths' = RemoveAt(columnMinWidths, i + 1)
              /\ rows' = [r \in 1..Len(rows) |-> RemoveAt(rows[r], i + 1)]]_vars

(* C17: SetColumns(headers) replaces the header list and, when the number  *)
(* of headers differs from N, pads or cuts every row to the new N and      *)
(* extends or cuts the alignment and minimum-width lists to the new N.     *)
C17_SetColumnsReconciles ==
    [][\A cs \in ColumnsIn :
          (WellFormed /\ SetColumns(cs)) =>
              /\ ret'.err = "nil"
              /\ columns' \in {cs, escapeRow(cs)}
              /\ \A r \in 1..Len(rows) : rows'[r] = Adjusted(rows[r], Len(cs))
              /\ Len(rows') = Len(rows)
              /\ Len(alignments') = Len(cs)
              /\ Len(columnMinWidths') = Len(cs)
              /\ \A i \in 1..Len(cs) :
                    i <= Len(columns) =>
                        /\ alignments'[i] = alignments[i]]_vars

(* al cut to n entries, or extended to n entries with Default *)
Reconciled(al, n) == [i \in 1..n |-> IF i <= Len(al) THEN al[i] ELSE AlignDefault]

(* C18: SetAlignments with a list of m valid values on a table of N        *)
(* columns leaves exactly N alignments: the first min(m, N) are the given  *)
(* values in order and the rest are Default, also when m <= N - 2.         *)
C18_SetAlignmentsReconciles ==
    [][\A al \in AlignmentsIn :
          (/\ WellFormed
           /\ \A k \in 1..Len(al) : IsValid(al[k])
           /\ SetAlignments(al)) =>
              /\ ret'.err = "nil"
              /\ alignments' = Reconciled(al, Len(columns))]_vars

(* C19: SetAlignment(i, a) and SetAlignments(list) return an error and     *)
(* leave the stored alignments as they were when a, or an element of the   *)
(* list, is not Default, Left, Center or Right.                            *)
C19_InvalidAlignmentRejected ==
    [][/\ \A i \in ColIndexIn, a \in AlignIn :
             (~IsValid(a) /\ SetAlignment(i, a)) =>
                 (ret'.err = "error" /\ alignments' = alignments)
       /\ \A al \in AlignmentsIn :
             ((\E k \in 1..Len(al) : ~IsValid(al[k])) /\ SetAlignments(al)) =>
                 (ret'.err = "error" /\ alignments' = alignments)]_vars

(* C20: after New with any alignment options carrying any alignment        *)
(* values, every stored alignment is Default, Left, Center or Right.       *)
C20_NewAlignmentsValid ==
    ret.op = "New" => \A i \in 1..Len(alignments) : IsValid(alignments[i])

(* an index-based option whose index is outside [0, N) *)
OutsideOption(o, n) ==
    o.k \in {"WithAlignment", "WithMinColumnWidth"} /\ (o.i < 0 \/ o.i >= n)

(* C21: New completes without an out-of-range access for every list of     *)
(* options, whatever their order, indexes and list lengths, and an          *)
(* index-based option whose index is outside [0, N) leaves the table as if  *)
(* it had not been given.                                                   *)
C21_NewNeverPanics ==
    [][/\ ret'.err # "panic"
       /\ (/\ ret.op = "New:opts"
           /\ ret.arg # <<>>
           /\ OutsideOption(Head(ret.arg), Len(columns))) => table' = table]_vars

(* C22: a data-alignment option (WithAlignments, WithAlignment) with a     *)
(* valid value a for column i sets the header alignment of i to a exactly  *)
(* when that header alignment is Default when the option is applied; a     *)
(* header alignment that is not Default stays, and the header-alignment    *)
(* options never change a data alignment.                                  *)
C22_CascadeOnlyToDefault ==
    [][(ret.op = "New:alignment opts" /\ ret.arg # <<>>) =>
          LET o == Head(ret.arg)
              h == headerAlignments
          IN  /\ (/\ o.k = "WithAlignment"
                  /\ IsValid(o.v)
                  /\ o.i >= 0 /\ o.i < Len(columns) /\ o.i < Len(h)) =>
                     headerAlignments' =
                         [h EXCEPT ![o.i + 1] = IF @ = AlignDefault THEN o.v ELSE @]
              /\ (o.k = "WithAlignments" /\ AllValid(o.l)) =>
                     /\ Len(headerAlignments') = Len(h)
                     /\ \A i \in 1..Len(h) :
                           headerAlignments'[i] =
                               IF i <= Len(o.l) /\ h[i] = AlignDefault
                               THEN o.l[i] ELSE h[i]
              /\ (o.k \in {"WithHeaderAlignments", "WithHeaderAlignment"}) =>
                     alignments' = alignments]_vars

ValidRowIndex(i) == i >= 0 /\ i < Len(rows)

(* C23: GetRow, SetRow with a row of N cells, and DeleteRow succeed for     *)
(* every index i with 0 <= i < number of rows, and for every other index,   *)
(* negative ones included, return an error and leave the table unchanged;   *)
(* a successful GetRow(i) returns the row stored at position i.             *)
C23_RowIndexChecked ==
    [][\A i \in RowIndexIn :
          /\ (ret'.op = "GetRow" /\ GetRow(i)) =>
                /\ table' = table
                /\ IF ValidRowIndex(i)
                   THEN ret'.err = "nil" /\ ret'.arg = rows[i + 1]
                   ELSE ret'.err = "error"
          /\ ret'.op = "SetRow" =>
                \A row \in RowIn :
                    (Len(row) = Len(columns) /\ SetRow(i, row)) =>
                        IF ValidRowIndex(i) THEN ret'.err = "nil"
                        ELSE ret'.err = "error" /\ table' = table
          /\ (ret'.op = "DeleteRow" /\ DeleteRow(i)) =>
                IF ValidRowIndex(i) THEN ret'.err = "nil"
                ELSE ret'.err = "error" /\ table' = table]_vars

(* GetRow(1) returned the second of two different rows *)
C23_Witness ==
    /\ ret.op = "GetRow" /\ ret.err = "nil"
    /\ Len(rows) = 2
    /\ rows[1] # rows[2]
    /\ ret.arg = rows[2]

ValidColumnIndex(i) == i >= 0 /\ i < Len(columns)

(* the outcome the contract wants of a column-indexed call with index i *)
IndexChecked(i) ==
    IF ValidColumnIndex(i) THEN ret'.err = "nil"
    ELSE ret'.err = "error" /\ table' = table

C25_SetRowReplaces ==
    [][ret'.op = "SetRow" =>
          \A i \in RowIndexIn, row \in RowIn :
              (ValidRowIndex(i) /\ SetRow(i, row)) =>
                  IF Len(row) # Len(columns)
                  THEN ret'.err = "error" /\ table' = table
                  ELSE /\ ret'.err = "nil"
                       /\ Len(rows') = Len(rows)
                       /\ \A k \in 1..Len(rows) :
                             rows'[k] = IF k = i + 1 THEN escapeRow(row) ELSE rows[k]
                       /\ UNCHANGED <<columns, alignments, columnMinWidths>>]_vars

(* SetRow put a row with an escaped pipe next to a row it left alone *)
C25_Witness ==
    /\ ret.op = "SetRow" /\ ret.err = "nil"
    /\ Len(rows) = 2
    /\ rows[1] # rows[2]
    /\ \E k \in 1..2 : \E c \in 1..Len(rows[k]) : rows[k][c] = <<"\\", "|">>

(* C26: DeleteRow(i) with a valid i reduces the number of rows by exactly   *)
(* one: rows before i keep their positions, every row after i moves down by *)
(* one position, and no other row content, column or metadata changes.      *)
C26_DeleteRowShifts ==
    [][\A i \in RowIndexIn :
          (ret'.op = "DeleteRow" /\ ValidRowIndex(i) /\ DeleteRow(i)) =>
              /\ Len(rows') = Len(rows) - 1
              /\ \A k \in 1..Len(rows') :
                    rows'[k] = IF k <= i THEN rows[k] ELSE rows[k + 1]
              /\ UNCHANGED <<columns, alignments, columnMinWidths>>]_vars

(* DeleteRow(0) took the first of two rows of a table with columns *)
C26_Witness ==
    /\ ret.op = "DeleteRow" /\ ret.err = "nil" /\ ret.arg = 0
    /\ Len(rows) = 1
    /\ Len(columns) = 2
    /\ Len(rows[1]) = 2

(* C27: SetColumnMinWidths(widths) returns an error and changes no minimum  *)
(* width when len(widths) differs from N; otherwise it sets the minimum     *)
(* width of every column i to max(widths[i], 0).  SetColumnMinWidth(i, w)   *)
(* likewise stores max(w, 0) for a valid i.                                 *)
C27_MinWidthsClamped ==
    [][/\ ret'.op = "SetColumnMinWidths" =>
            \A ws \in WidthsIn :
                SetColumnMinWidths(ws) =>
                    IF Len(ws) # Len(columns)
                    THEN ret'.err = "error" /\ columnMinWidths' = columnMinWidths
                    ELSE /\ ret'.err = "nil"
                         /\ columnMinWidths' = [k \in 1..Len(columns) |-> Max(ws[k], 0)]
       /\ ret'.op = "SetColumnMinWidth" =>
            \A i \in ColIndexIn, w \in WidthIn :
                (ValidColumnIndex(i) /\ SetColumnMinWidth(i, w)) =>
                    /\ ret'.err = "nil"
                    /\ Len(columnMinWidths') = Len(columns)
                    /\ columnMinWidths'[i + 1] = Max(w, 0)]_vars

ConfiguredWidths ==
    New(CHOOSE c \in ColumnsIn : escapeRow(c) = columns, <<>>).t.columnMinWidths

(* the largest of w and the lengths of the cells of column c in the rows *)
RaisedWidth(w, c) ==
    LET lens == {w} \cup {Len(rows[r][c]) : r \in {k \in 1..Len(rows) : c <= Len(rows[k])}}
    IN  CHOOSE m \in lens : \A l \in lens : l <= m

Newlines(text) == {i \in 1..Len(text) : text[i] = "\n"}
NewlineAt(text, k) ==
    IF k = 0 THEN 0
    ELSE CHOOSE i \in Newlines(text) :
            Cardinality({j \in Newlines(text) : j <= i}) = k
LineOf(text, k) == SubSeq(text, NewlineAt(text, k - 1) + 1, NewlineAt(text, k) - 1)

(* the cells of a line: one per pipe without a backslash before it, but     *)
(* for the pipe that closes the line                                        *)
CellCount(line) ==
    Cardinality({i \in 1..Len(line) :
                    line[i] = "|" /\ (i = 1 \/ line[i - 1] # "\\")}) - 1

(* C30: Render appends exactly 2 + (number of rows) newline-terminated      *)
(* lines, in the order header line, delimiter line, then one line per row   *)
(* in stored order, each line holding N cells; with zero rows it writes     *)
(* only the header and delimiter lines, with widths derived from the header *)
(* lengths and the configured minimum widths.                               *)
C30_RenderLines ==
    ret.op = "Render" =>
        /\ ret.err = "nil"
        /\ ret.arg # <<>> /\ ret.arg[Len(ret.arg)] = "\n"
        /\ Cardinality(Newlines(ret.arg)) = 2 + Len(rows)
        /\ LineOf(ret.arg, 1) \o <<"\n">> = headerLine(T)
        /\ LineOf(ret.arg, 2) \o <<"\n">> = delimiterLine(T)
        /\ \A r \in 1..Len(rows) :
              LineOf(ret.arg, 2 + r) \o <<"\n">> = rowLine(T, rows[r])
        /\ \A k \in 1..(2 + Len(rows)) : CellCount(LineOf(ret.arg, k)) = Len(columns)
        /\ rows = <<>> =>
              /\ Len(columnMinWidths) = Len(columns)
              /\ \A i \in 1..Len(columns) :
                    columnMinWidths[i] >= Len(columns[i])

(* the positions of the pipes of a delimiter line, and its k-th cell: the   *)
(* text between the k-th pipe and the next                                  *)
Pipes(line) == {i \in 1..Len(line) : line[i] = "|"}
PipeAt(line, k) ==
    CHOOSE i \in Pipes(line) : Cardinality({j \in Pipes(line) : j <= i}) = k
DelimiterCellOf(line, k) == SubSeq(line, PipeAt(line, k) + 1, PipeAt(line, k + 1) - 1)

(* C31: for every column, whatever value its stored alignment has, a Render *)
(* that returns has written a delimiter cell of exactly width + 2           *)
(* characters, all dashes, except that the first is a colon exactly when    *)
(* the alignment is Left or Center and the last is a colon exactly when it  *)
(* is Center or Right.                                                      *)
C31_DelimiterCells ==
    (ret.op = "Render" /\ ret.err = "nil") =>
        \A i \in 1..Len(columns) :
            LET c == DelimiterCellOf(LineOf(ret.arg, 2), i)
                a == alignments[i]
            IN  /\ Len(c) = columnMinWidths[i] + 2
                /\ c[1] = IF a \in {AlignLeft, AlignCenter} THEN ":" ELSE "-"
                /\ c[Len(c)] = IF a \in {AlignCenter, AlignRight} THEN ":" ELSE "-"
                /\ \A k \in 2..(Len(c) - 1) : c[k] = "-"

Spaces(s) == \A k \in 1..Len(s) : s[k] = " "

(* C32: for every string s, width w and valid alignment, the padded cell    *)
(* has length max(len(s), w) and contains s unchanged: with Left or Default *)
(* all padding follows s, with Right all precedes s, with Center            *)
(* floor(p/2) spaces precede s and the other p - floor(p/2) follow it,      *)
(* p = w - len(s); when len(s) >= w the result is s itself.                 *)
C32_PadPlacesText ==
    (ret.op = "pad" /\ IsValid(ret.arg.align)) =>
        LET s == ret.arg.s
            w == ret.arg.width
            a == ret.arg.align
            out == ret.arg.out
            p == w - Len(s)
            before == IF a = AlignRight THEN p
                      ELSE IF a = AlignCenter THEN p \div 2 ELSE 0
        IN  /\ Len(out) = Max(Len(s), w)
            /\ Len(s) >= w => out = s
            /\ Len(s) < w =>
                  /\ Spaces(SubSeq(out, 1, before))
                  /\ SubSeq(out, before + 1, before + Len(s)) = s
                  /\ Spaces(SubSeq(out, before + Len(s) + 1, Len(out)))

(* a text of two characters centred in a width of five: one space before   *)
(* it, two after                                                            *)
C32_Witness ==
    /\ ret.op = "pad"
    /\ ret.arg.align = AlignCenter
    /\ Len(ret.arg.s) = 2
    /\ ret.arg.width = 5
    /\ ret.arg.out = <<" ">> \o ret.arg.s \o <<" ", " ">>

Rendered == ret.op \in {"Render", "String"} /\ ret.err = "nil"

(* C33: two consecutive renders (Render or String) with no mutation in      *)
(* between produce identical text, and rendering leaves the stored headers  *)
(* and cells unchanged, so an escaped pipe is never escaped a second time.  *)
C33_RenderTwiceSameText ==
    [][(Render \/ String) =>
          /\ columns' = columns
          /\ rows' = rows
          /\ Rendered => (ret'.err = "nil" /\ ret'.arg = ret.arg)]_vars

(* the second of two renders of a table with an escaped pipe in a cell *)
C33_Witness ==
    /\ Rendered
    /\ calls = 2
    /\ \E r \in 1..Len(rows) : \E c \in 1..Len(rows[r]) : rows[r][c] = <<"\\", "|">>

(* C39: String returns exactly the text Render would write in the same      *)
(* state and leaves the table's output sink unchanged: a Render after       *)
(* String still writes to the sink that was passed to New.                  *)
C39_StringKeepsSink ==
    [][String => (ret'.arg = RenderValue(T) /\ writer' = writer)]_vars

Holds(p) == mu.w = p \/ p \in mu.r

(* C34: under fair scheduling every invoked operation eventually returns    *)
(* and has released the lock it took, on the success path and on every     *)
(* error path; no operation asks for the lock while it holds it, and no set *)
(* of concurrent calls on one table deadlocks.                              *)
C34_EveryCallReturns ==
    /\ [](\A p \in Procs : pc[p] \in {"Lock", "RLock"} => ~Holds(p))
    /\ \A p \in Procs :
          (pc[p] \notin {"idle", "done"}) ~> (pc[p] = "done" /\ ~Holds(p))

(* three calls are over and the lock is free: an AddRow that stored its     *)
(* row, an AddRow that was refused for its length, and a GetRows            *)
C34_Witness ==
    /\ AllDone
    /\ mu = Idle
    /\ \E p \in Procs : tmp[p].op = "AddRow" /\ Len(tmp[p].row) = Len(columns)
    /\ \E p \in Procs : tmp[p].op = "AddRow" /\ Len(tmp[p].row) # Len(columns)
    /\ \E p \in Procs : tmp[p].op = "GetRows"
    /\ Len(rows) = 1

(* C36: updateAlignments is idempotent: for every column count and every    *)
(* alignment list length, running it twice in a row leaves the same         *)
(* alignment list as running it once.                                       *)
C36_UpdateAlignmentsIdempotent ==
    [][(ret.op = "updateAlignments" /\ UpdateAlignments) =>
          alignments' = alignments]_vars

(* the text of a table with the stored headers and alignments, the header   *)
(* lengths as widths and rows rs                                            *)
HeaderWidthTable(rs) == Tbl(columns, rs, alignments, ConfiguredWidths)

(* a cell written without padding *)
bareCell(s) == <<"|", " ">> \o s \o <<" ">>

Compact == ret.op = "Render" /\ ret.err = "nil" /\ ~pretty

(* C35: with the pretty flag disabled, Render computes the header and       *)
(* delimiter lines from the header lengths alone, independent of row        *)
(* content, and writes every data cell with no padding at all.              *)
C35_CompactUnpadded ==
    Compact =>
        /\ LineOf(ret.arg, 1) \o <<"\n">> = headerLine(HeaderWidthTable(<<>>))
        /\ LineOf(ret.arg, 2) \o <<"\n">> = delimiterLine(HeaderWidthTable(<<>>))
        /\ \A r \in 1..Len(rows) :
              LineOf(ret.arg, 2 + r) \o <<"\n">> =
                  Concat([i \in 1..Len(rows[r]) |-> bareCell(rows[r][i])]) \o <<"|", "\n">>

(* C35, amended: with the pretty flag disabled, Render computes the header  *)
(* and delimiter lines from the header lengths alone, independent of row    *)
(* content, and pads every data cell to the header length of its column and *)
(* no further: a cell at least that long is written as it is, whatever the  *)
(* other rows hold.                                                         *)
C35_CompactPadsToHeader ==
    Compact =>
        /\ LineOf(ret.arg, 1) \o <<"\n">> = headerLine(HeaderWidthTable(<<>>))
        /\ LineOf(ret.arg, 2) \o <<"\n">> = delimiterLine(HeaderWidthTable(<<>>))
        /\ \A r \in 1..Len(rows) :
              LineOf(ret.arg, 2 + r) \o <<"\n">> =
                  Concat([i \in 1..Len(rows[r]) |->
                             bareCell(pad(rows[r][i], ConfiguredWidths[i], alignments[i]))])
                  \o <<"|", "\n">>

(* a compact Render of three columns and a row that has a cell longer than  *)
(* its header and a cell shorter than its header                            *)
C35_Witness ==
    /\ Compact
    /\ Len(columns) = 3
    /\ \E r \in 1..Len(rows) :
          /\ Len(rows[r]) = 3
          /\ \E i \in 1..3 : Len(rows[r][i]) > ConfiguredWidths[i]
          /\ \E i \in 1..3 : Len(rows[r][i]) < ConfiguredWidths[i]

(* the operations that take the shared lock, mu.RLock *)
ReadOps == {"GetRow", "GetRows", "GetColumn", "GetColumns", "GetAlignment",
            "GetAlignments", "GetColumnWidth", "GetColumnWidths"}

(* C37: no field of the table is written while only the shared lock is      *)
(* held: GetRow, GetRows, GetColumns, GetAlignment(s) and GetColumnWidth(s) *)
(* leave all table state unchanged.                                         *)
C37_ReadsWriteNothing ==
    [][ret'.op \in ReadOps => table' = table]_vars

(* C38: a construction-time alignment option that is rejected because one  *)
(* of its values is invalid changes no data alignment and no header        *)
(* alignment.                                                              *)
RejectedForValue(o) ==
    \/ o.k \in {"WithAlignments", "WithHeaderAlignments"} /\ ~AllValid(o.l)
    \/ /\ o.k \in {"WithAlignment", "WithHeaderAlignment"}
       /\ o.i >= 0 /\ o.i < Len(columns)
       /\ ~IsValid(o.v)

C38_RejectedOptionNoOp ==
    [][(/\ ret.op = "New:alignment opts"
        /\ ret.err = "nil"
        /\ ret.arg # <<>>
        /\ RejectedForValue(Head(ret.arg)))
       => /\ alignments' = alignments
          /\ headerAlignments' = headerAlignments]_vars

(* C40: writing back what was read leaves every stored cell as it was: for *)
(* every valid i, SetRow(i, GetRow(i)), and SetRows(GetRows()), leave the  *)
(* rows unchanged, escaped pipes included.                                 *)
C40_WriteBackKeepsCells ==
    [][(\/ ret'.op = "SetRow(GetRow)" /\ ValidRowIndex(ret'.arg)
        \/ ret'.op = "SetRows(GetRows)")
       => rows' = rows]_vars

====
